---- MODULE Spec2Model ----
(***************************************************************************)
(* Payroll engine of dealls-payroll: the submission services, the payroll  *)
(* run transaction and the period service, over a PostgreSQL store at its  *)
(* default READ COMMITTED isolation.                                       *)
(*                                                                         *)
(* Store model.  Every repository call made through r.db is one            *)
(* auto-committed statement on the committed tables.  Calls made through   *)
(* the tx handle of db.Transaction write to a private write set that       *)
(* reaches the committed tables at commit and is dropped at rollback; an   *)
(* UPDATE holds a lock on the rows it wrote until the transaction ends.    *)
(* Reads inside RunPayroll go through r.db, so they see committed rows     *)
(* only.                                                                   *)
(*                                                                         *)
(* Numbers.  Dates are day numbers, date 1 being a Thursday.  Timestamps    *)
(* are ticks of half a day: Midnight(d) = 2d, the noon of d = 2d + 1.      *)
(* Hours and amounts are integers; salaries are multiples of the possible  *)
(* working hours of the period, so that the float64 divisions of the code  *)
(* are exact on the modelled inputs.                                       *)
(*                                                                         *)
(* Specifications.  Spec is the whole engine seen by one submitting        *)
(* client, two payroll runs and the period service.  The others isolate    *)
(* one group of operations over the same variables: SpecOvertime and       *)
(* SpecAttendance (two concurrent submitters), SpecPeriods (two concurrent *)
(* CreatePayrollPeriod calls), SpecCalc (one run over a store drawn from   *)
(* the calculator's inputs), SpecReaders (payslip readers next to runs),   *)
(* SpecTwoPeriods (two runs over two stored periods) and SpecAudit (the    *)
(* audit sink failing and recovering under every audited operation).       *)
(***************************************************************************)
EXTENDS Integers, Sequences, FiniteSets, Bags, TLC

\* ---- program constants --------------------------------------------------
RegularWorkingHoursPerDay == 8
OvertimeMultiplier == 2
MaxOvertimeHoursPerDay == 3
Saturday == 6
Sunday == 0

\* ---- bounds -------------------------------------------------------------
MaxNow == 5
MaxSubmits == 1
MaxMarks == 1

\* ---- inputs -------------------------------------------------------------
Employees == {"e1", "e2"}
Runs == {"r1", "r2"}
Calls == {"c1", "c2"}
PeriodIds == {1, 2}
Dates == {1, 3}
AttendanceDates == {1, 2, 3}
PeriodDates == 2..6
OverlapStartDates == {3, 5}
OverlapEndDates == {5, 6}
CreatedPeriodIds == {5, 6}
FloatRanges == {<<1, 2>>, <<1, 5>>, <<5, 9>>}
MantissaBits == 6
MaxExponent == 2 * MantissaBits - 2
FloatSalaries == {2^(MantissaBits - 1) + k : k \in {15, 16, 17, 23}}
CalcRanges == {<<1, 2>>, <<2, 5>>, <<1, 6>>, <<3, 4>>}
CalcCheckOutHours == {0, 14, 17, 19}
CalcCreatedAt == {1, 3, 5, 7, 11, 13}
CheckInHours == {9}
CheckOutHours == {14, 17}
OvertimeHours == {1, 2, 4}
Amounts == {50}
NULL == 0
NoUser == ""
Nobody == ""

VARIABLES
    now,            \* time.Now(), in ticks
    periods,        \* payroll_periods table: id -> row
    attendances,    \* attendances table (set of rows)
    overtimes,      \* overtimes table
    reimbursements, \* reimbursements table
    payslips,       \* payslips table
    auditLog,       \* audit_logs table (bag of entries)
    nextId,         \* source of fresh primary keys
    run,            \* RunPayroll invocations: position, locals, write set
    call,           \* Submit* invocations: position and locals
    submits,        \* number of Submit* invocations made by each client
    marks,          \* number of MarkPayrollPeriodAsProcessed invocations
    auditUp         \* whether auditRepo.Create succeeds

vars == <<now, periods, attendances, overtimes, reimbursements, payslips,
          auditLog, nextId, run, call, submits, marks, auditUp>>

tables == <<periods, attendances, overtimes, reimbursements, payslips>>

\* ---- time ---------------------------------------------------------------
Midnight(d) == 2 * d

Weekday(d) == (d + 3) % 7

IsWeekendSundayOnly(d) == Weekday(d) = Sunday

IsWeekend(d) == Weekday(d) = Saturday \/ Weekday(d) = Sunday

\* ---- employee_profiles table (written by the seed only) ------------------
Salary == [e \in Employees |-> IF e = "e1" THEN 1600 ELSE 3200]

GetAllEmployeeProfilesFirst == {"e1"}

GetAllEmployeeProfiles == Employees

\* ---- helpers ------------------------------------------------------------
RECURSIVE SetSum(_)
SetSum(S) ==
    IF S = {} THEN 0
    ELSE LET x == CHOOSE y \in S : TRUE IN x[2] + SetSum(S \ {x})

Ids(S) == {x.id : x \in S}

\* gorm Save inside or outside a transaction: UPDATE of every column by id
SaveAll(table, rows) == {x \in table : x.id \notin Ids(rows)} \cup rows

AuditEntry(action, entity, id) ==
    [action |-> action, entity |-> entity, entity_id |-> id]

\* the error of auditRepo.Create is dropped by every caller
CreateAuditLog(action, entity, id) ==
    IF auditUp
    THEN auditLog (+) SetToBag({AuditEntry(action, entity, id)})
    ELSE auditLog

\* an UPDATE entry with its old and new JSON snapshots (the check-in and
\* check-out times of the record)
AuditUpdateEntry(entity, id, oldValue, newValue) ==
    [action |-> "UPDATE", entity |-> entity, entity_id |-> id,
     old_value |-> <<oldValue.check_in, oldValue.check_out>>,
     new_value |-> <<newValue.check_in, newValue.check_out>>]

CreateAuditLogUpdate(entity, id, oldValue, newValue) ==
    IF auditUp
    THEN auditLog (+) SetToBag({AuditUpdateEntry(entity, id, oldValue, newValue)})
    ELSE auditLog

\* ---- repository reads ---------------------------------------------------
GetPayrollPeriodByID(id) ==
    IF id \in DOMAIN periods THEN {periods[id]} ELSE {}

GetAttendanceByUserIDAndDate(u, d) ==
    {a \in attendances : a.user = u /\ a.date = d}

GetAttendancesByUserIDAll(u, s, e) == {a \in attendances : a.user = u}

GetAttendancesByUserIDAndPeriod(u, s, e) ==
    {a \in attendances : a.user = u /\ a.date >= s /\ a.date <= e}

GetOvertimeByUserIDAndDate(u, d) ==
    {o \in overtimes : o.user = u /\ o.date = d}

GetOvertimesByUserIDAll(u, s, e) == {o \in overtimes : o.user = u}

GetOvertimesByUserIDAndPeriod(u, s, e) ==
    {o \in overtimes : o.user = u /\ o.date >= s /\ o.date <= e}

GetReimbursementsByUserIDAndPeriod(u, s, e) ==
    {b \in reimbursements :
        b.user = u /\ b.created_at >= Midnight(s) /\ b.created_at <= Midnight(e)}

\* ---- transactions and row locks -----------------------------------------
NoCalc == [payslip |-> {}, att |-> {}, ot |-> {}, rb |-> {}]

NoRun == [pc |-> "idle", period |-> NULL, todo |-> {}, calc |-> NoCalc,
          txPayslips |-> {}, txAtt |-> {}, txOt |-> {}, txRb |-> {},
          stamp |-> NULL, err |-> ""]

InTx(r) == run[r].pc \in {"employees", "calculated", "marked"}

\* rows of the table locked by a transaction other than r's
LockedAtt(r) == UNION {Ids(run[q].txAtt) : q \in {q \in Runs \ {r} : InTx(q)}}
LockedOt(r) == UNION {Ids(run[q].txOt) : q \in {q \in Runs \ {r} : InTx(q)}}
LockedRb(r) == UNION {Ids(run[q].txRb) : q \in {q \in Runs \ {r} : InTx(q)}}
LockedPeriod(r, id) ==
    \E q \in Runs \ {r} : run[q].pc = "marked" /\ run[q].period = id

NoCall == [op |-> "none", user |-> NoUser, date |-> NULL, arg |-> NULL,
           existing |-> {}, err |-> ""]

Init ==
    /\ now = Midnight(2)
    /\ periods = (1 :> [start_date |-> 1, end_date |-> 2,
                        is_processed |-> FALSE, processed_at |-> NULL])
    /\ attendances = {[id |-> 1, user |-> "e1", date |-> 1,
                       check_in |-> 9, check_out |-> 17,
                       period |-> NULL]}
    /\ overtimes = {[id |-> 2, user |-> "e1", date |-> 1, hours |-> 2,
                     period |-> NULL]}
    /\ reimbursements = {[id |-> 3, user |-> "e1", amount |-> 50,
                          created_at |-> Midnight(1) + 1, period |-> NULL]}
    /\ payslips = {}
    /\ auditLog = SetToBag({AuditEntry("CREATE", "Attendance", 1),
                            AuditEntry("CREATE", "Overtime", 2),
                            AuditEntry("CREATE", "Reimbursement", 3)})
    /\ nextId = 4
    /\ run = [r \in Runs |-> NoRun]
    /\ call = [c \in Calls |-> NoCall]
    /\ submits = [c \in Calls |-> 0]
    /\ marks = 0
    /\ auditUp = TRUE

\* ---- the audit sink ------------------------------------------------------
\* auditRepo.Create starts or stops returning an error
AuditRepoOutage ==
    /\ auditUp' = ~auditUp
    /\ UNCHANGED <<now, periods, attendances, overtimes, reimbursements,
                   payslips, auditLog, nextId, run, call, submits, marks>>

\* ---- the clock ----------------------------------------------------------
Tick ==
    /\ now < MaxNow
    /\ now' = now + 1
    /\ UNCHANGED <<periods, attendances, overtimes, reimbursements, payslips,
                   auditLog, nextId, run, call, submits, marks, auditUp>>

\* ---- AttendanceService.SubmitAttendance ---------------------------------
\* weekend rule and the lookup of the day's record
SubmitAttendanceLookup(c, u, d, in, out) ==
    /\ call[c].op = "none"
    /\ submits[c] < MaxSubmits
    /\ submits' = [submits EXCEPT ![c] = @ + 1]
    /\ call' = [call EXCEPT ![c] =
          IF IsWeekend(d)
          THEN [NoCall EXCEPT !.err = "weekend"]
          ELSE [NoCall EXCEPT !.op = "att", !.user = u, !.date = d,
                              !.arg = <<in, out>>,
                              !.existing = GetAttendanceByUserIDAndDate(u, d)]]
    /\ UNCHANGED <<now, periods, attendances, overtimes, reimbursements,
                   payslips, auditLog, nextId, run, marks, auditUp>>

AttendanceIndexFreeAlways(d) == TRUE

\* the unique index idx_user_date of the attendances table covers the date
\* column only
AttendanceIndexFree(d) == \A a \in attendances : a.date # d

OldValueAliased(existing, updated) == updated

\* oldValue := *existingAttendance, copied before the fields are assigned
OldValue(existing, updated) == existing

\* update of the record found by the lookup, or insert of a new one
SubmitAttendanceWrite(c) ==
    /\ call[c].op = "att"
    /\ IF call[c].existing # {}
       THEN LET old == CHOOSE a \in call[c].existing : TRUE
                new == [old EXCEPT !.check_in = call[c].arg[1],
                                   !.check_out = call[c].arg[2]]
            IN /\ old.id \notin LockedAtt(Nobody)
               /\ attendances' = SaveAll(attendances, {new})
               /\ auditLog' = CreateAuditLogUpdate("Attendance", old.id,
                                                   OldValue(old, new), new)
               /\ call' = [call EXCEPT ![c] = NoCall]
               /\ UNCHANGED nextId
       ELSE IF AttendanceIndexFree(call[c].date)
       THEN /\ attendances' = attendances \cup
                  {[id |-> nextId, user |-> call[c].user,
                    date |-> call[c].date, check_in |-> call[c].arg[1],
                    check_out |-> call[c].arg[2], period |-> NULL]}
            /\ auditLog' = CreateAuditLog("CREATE", "Attendance", nextId)
            /\ nextId' = nextId + 1
            /\ call' = [call EXCEPT ![c] = NoCall]
       ELSE /\ call' = [call EXCEPT ![c] =
                  [NoCall EXCEPT !.user = call[c].user, !.date = call[c].date,
                                 !.err = "unique_violation"]]
            /\ UNCHANGED <<attendances, auditLog, nextId>>
    /\ UNCHANGED <<now, periods, overtimes, reimbursements, payslips, run,
                   submits, marks, auditUp>>

\* ---- OvertimeService.SubmitOvertime -------------------------------------
TotalHoursToday(u, d) ==
    SetSum({<<o.id, o.hours>> : o \in GetOvertimeByUserIDAndDate(u, d)})

CapExceededStrict(total, hours) == total + hours >= MaxOvertimeHoursPerDay

\* the daily cap rule
CapExceeded(total, hours) == total + hours > MaxOvertimeHoursPerDay

\* read of the day's records and the daily cap rule
SubmitOvertimeCheck(c, u, d, h) ==
    /\ call[c].op = "none"
    /\ submits[c] < MaxSubmits
    /\ submits' = [submits EXCEPT ![c] = @ + 1]
    /\ call' = [call EXCEPT ![c] =
          IF CapExceeded(TotalHoursToday(u, d), h)
          THEN [NoCall EXCEPT !.err = "cap_exceeded"]
          ELSE [NoCall EXCEPT !.op = "ot", !.user = u, !.date = d, !.arg = h]]
    /\ UNCHANGED <<now, periods, attendances, overtimes, reimbursements,
                   payslips, auditLog, nextId, run, marks, auditUp>>

\* insert of the new record
SubmitOvertimeCreate(c) ==
    /\ call[c].op = "ot"
    /\ overtimes' = overtimes \cup
          {[id |-> nextId, user |-> call[c].user, date |-> call[c].date,
            hours |-> call[c].arg, period |-> NULL]}
    /\ auditLog' = CreateAuditLog("CREATE", "Overtime", nextId)
    /\ nextId' = nextId + 1
    /\ call' = [call EXCEPT ![c] = NoCall]
    /\ UNCHANGED <<now, periods, attendances, reimbursements, payslips, run,
                   submits, marks, auditUp>>

\* ---- ReimbursementService.SubmitReimbursement ---------------------------
SubmitReimbursement(c, u, amount) ==
    /\ call[c].op = "none"
    /\ submits[c] < MaxSubmits
    /\ submits' = [submits EXCEPT ![c] = @ + 1]
    /\ reimbursements' = reimbursements \cup
          {[id |-> nextId, user |-> u, amount |-> amount, created_at |-> now,
            period |-> NULL]}
    /\ auditLog' = CreateAuditLog("CREATE", "Reimbursement", nextId)
    /\ nextId' = nextId + 1
    /\ UNCHANGED <<now, periods, attendances, overtimes, payslips, run, call,
                   marks, auditUp>>

\* ---- PayrollPeriodService.CreatePayrollPeriod ---------------------------
\* WHERE start_date <= endDate AND end_date >= startDate
GetOverlappingPayrollPeriods(startDate, endDate) ==
    {id \in DOMAIN periods : /\ periods[id].start_date <= endDate
                             /\ periods[id].end_date >= startDate}

\* the date validation and the overlap check
CreatePayrollPeriodCheck(c, startDate, endDate) ==
    /\ call[c].op = "none"
    /\ submits[c] < MaxSubmits
    /\ submits' = [submits EXCEPT ![c] = @ + 1]
    /\ call' = [call EXCEPT ![c] =
          IF ~(endDate > startDate)
          THEN [NoCall EXCEPT !.err = "end_not_after_start"]
          ELSE IF GetOverlappingPayrollPeriods(startDate, endDate) # {}
          THEN [NoCall EXCEPT !.err = "overlap"]
          ELSE [NoCall EXCEPT !.op = "period", !.arg = <<startDate, endDate>>]]
    /\ UNCHANGED <<now, periods, attendances, overtimes, reimbursements,
                   payslips, auditLog, nextId, run, marks, auditUp>>

\* insert of the new period
CreatePayrollPeriodCreate(c) ==
    /\ call[c].op = "period"
    /\ periods' = periods @@
          (nextId :> [start_date |-> call[c].arg[1], end_date |-> call[c].arg[2],
                      is_processed |-> FALSE, processed_at |-> NULL])
    /\ auditLog' = CreateAuditLog("CREATE", "PayrollPeriod", nextId)
    /\ nextId' = nextId + 1
    /\ call' = [call EXCEPT ![c] = NoCall]
    /\ UNCHANGED <<now, attendances, overtimes, reimbursements, payslips, run,
                   submits, marks, auditUp>>

\* ---- PayrollPeriodService.MarkPayrollPeriodAsProcessed ------------------
MarkPayrollPeriodAsProcessed(id) ==
    /\ marks < MaxMarks
    /\ marks' = marks + 1
    /\ IF GetPayrollPeriodByID(id) = {}
       THEN UNCHANGED <<periods, auditLog>>
       ELSE /\ ~LockedPeriod(Nobody, id)
            /\ periods' = [periods EXCEPT ![id].is_processed = TRUE,
                                          ![id].processed_at = now]
            /\ auditLog' = CreateAuditLog("UPDATE", "PayrollPeriod", id)
    /\ UNCHANGED <<now, attendances, overtimes, reimbursements, payslips,
                   nextId, run, call, submits, auditUp>>

\* ---- PayslipService ------------------------------------------------------
GetPayslipByUserIDAndPeriodID(u, id) ==
    {s \in payslips : s.user = u /\ s.period = id}

GetAllPayslipsByPeriodID(id) == {s \in payslips : s.period = id}

PayslipReadErrorNoProcessedCheck(id) ==
    IF GetPayrollPeriodByID(id) = {} THEN "period_not_found" ELSE ""

\* the guards of both readers on the period they loaded
PayslipReadError(id) ==
    IF GetPayrollPeriodByID(id) = {} THEN "period_not_found"
    ELSE IF ~periods[id].is_processed THEN "not_processed"
    ELSE ""

\* GetEmployeePayslip: load the period
GetEmployeePayslipPeriod(c, u, id) ==
    /\ call[c].op = "none"
    /\ submits[c] < MaxSubmits
    /\ submits' = [submits EXCEPT ![c] = @ + 1]
    /\ call' = [call EXCEPT ![c] =
          IF PayslipReadError(id) # ""
          THEN [NoCall EXCEPT !.err = PayslipReadError(id)]
          ELSE [NoCall EXCEPT !.op = "payslip", !.user = u, !.arg = id]]
    /\ UNCHANGED <<now, periods, attendances, overtimes, reimbursements,
                   payslips, auditLog, nextId, run, marks, auditUp>>

\* GetEmployeePayslip: load the payslip and return it (the records attached
\* to the period are read afterwards into the response)
GetEmployeePayslipRead(c) ==
    /\ call[c].op = "payslip"
    /\ call' = [call EXCEPT ![c] =
          IF GetPayslipByUserIDAndPeriodID(call[c].user, call[c].arg) = {}
          THEN [NoCall EXCEPT !.err = "payslip_not_found"]
          ELSE [NoCall EXCEPT
                  !.user = call[c].user, !.arg = call[c].arg,
                  !.existing =
                      GetPayslipByUserIDAndPeriodID(call[c].user, call[c].arg)]]
    /\ UNCHANGED <<now, periods, attendances, overtimes, reimbursements,
                   payslips, auditLog, nextId, run, submits, marks, auditUp>>

\* GetPayslipSummaryForPeriod: load the period
GetPayslipSummaryPeriod(c, id) ==
    /\ call[c].op = "none"
    /\ submits[c] < MaxSubmits
    /\ submits' = [submits EXCEPT ![c] = @ + 1]
    /\ call' = [call EXCEPT ![c] =
          IF PayslipReadError(id) # ""
          THEN [NoCall EXCEPT !.err = PayslipReadError(id)]
          ELSE [NoCall EXCEPT !.op = "summary", !.arg = id]]
    /\ UNCHANGED <<now, periods, attendances, overtimes, reimbursements,
                   payslips, auditLog, nextId, run, marks, auditUp>>

TotalTakeHomePayProratedOnly(ps) ==
    SetSum({<<s.id, s.prorated_salary>> : s \in ps})

\* totalTakeHomePay += p.TotalTakeHomePay over the payslips read
TotalTakeHomePay(ps) == SetSum({<<s.id, s.total_take_home_pay>> : s \in ps})

\* GetPayslipSummaryForPeriod: load the payslips of the period and return
\* them with the sum of their take-home pay
GetPayslipSummaryRead(c) ==
    /\ call[c].op = "summary"
    /\ call' = [call EXCEPT ![c] =
          [NoCall EXCEPT
             !.arg = <<call[c].arg,
                       TotalTakeHomePay(GetAllPayslipsByPeriodID(call[c].arg))>>,
             !.existing = GetAllPayslipsByPeriodID(call[c].arg)]]
    /\ UNCHANGED <<now, periods, attendances, overtimes, reimbursements,
                   payslips, auditLog, nextId, run, submits, marks, auditUp>>

\* ---- PayrollService.CalculatePayslip ------------------------------------
WorkedHoursUncapped(a) ==
    LET workedHours == a.check_out - a.check_in
    IN IF workedHours < RegularWorkingHoursPerDay THEN 0 ELSE workedHours

\* the hours one attendance record contributes
WorkedHours(a) ==
    LET workedHours == a.check_out - a.check_in
    IN IF workedHours > RegularWorkingHoursPerDay
       THEN RegularWorkingHoursPerDay
       ELSE IF workedHours < RegularWorkingHoursPerDay THEN 0
       ELSE workedHours

TotalWorkedHours(atts, p) ==
    SetSum({<<a.id, WorkedHours(a)>> :
              a \in {x \in atts : x.date >= p.start_date /\ x.date <= p.end_date}})

TotalPossibleWorkingHours(p) ==
    RegularWorkingHoursPerDay *
        Cardinality({d \in p.start_date..p.end_date : ~IsWeekend(d)})

HourlyRateNoGuard(baseSalary, p) ==
    baseSalary \div (IF TotalPossibleWorkingHours(p) > 0
                     THEN TotalPossibleWorkingHours(p)
                     ELSE 1)

HourlyRate(baseSalary, p) ==
    IF TotalPossibleWorkingHours(p) > 0
    THEN baseSalary \div TotalPossibleWorkingHours(p)
    ELSE 0

ProratedSalary(baseSalary, atts, p) ==
    IF TotalPossibleWorkingHours(p) > 0
    THEN HourlyRate(baseSalary, p) * TotalWorkedHours(atts, p)
    ELSE 0

OvertimePayNoMultiplier(baseSalary, ots, p) ==
    SetSum({<<o.id, o.hours>> : o \in ots}) * HourlyRate(baseSalary, p)

OvertimePay(baseSalary, ots, p) ==
    SetSum({<<o.id, o.hours>> : o \in ots}) * HourlyRate(baseSalary, p)
        * OvertimeMultiplier

TotalReimbursement(rbs) == SetSum({<<b.id, b.amount>> : b \in rbs})

TaggedNot(rows, id) == rows

\* attach the period to the fetched records
Tagged(rows, id) == {[x EXCEPT !.period = id] : x \in rows}

\* the payslip and the tagged copies of the records read for user u
CalculatePayslip(u, id, payslipId) ==
    LET p    == periods[id]
        atts == GetAttendancesByUserIDAndPeriod(u, p.start_date, p.end_date)
        ots  == GetOvertimesByUserIDAndPeriod(u, p.start_date, p.end_date)
        rbs  == GetReimbursementsByUserIDAndPeriod(u, p.start_date, p.end_date)
        base == Salary[u]
    IN [payslip |-> {[id |-> payslipId, user |-> u, period |-> id,
                      base_salary |-> base,
                      prorated_salary |-> ProratedSalary(base, atts, p),
                      overtime_pay |-> OvertimePay(base, ots, p),
                      total_reimbursement |-> TotalReimbursement(rbs),
                      total_take_home_pay |->
                          ProratedSalary(base, atts, p)
                          + OvertimePay(base, ots, p)
                          + TotalReimbursement(rbs)]},
        att |-> Tagged(atts, id),
        ot  |-> Tagged(ots, id),
        rb  |-> Tagged(rbs, id)]

\* ---- float64 arithmetic of the calculator -------------------------------
\* A float is a pair <<n, d>> with value n / d, d a power of two. Every
\* operation returns the float nearest to the exact result, ties to the even
\* significand, as IEEE 754 does; the significand has MantissaBits bits where
\* float64 has 53.
RoundHalfEven(a, b) ==
    LET q == a \div b
        r == a % b
    IN IF 2 * r > b \/ (2 * r = b /\ q % 2 = 1) THEN q + 1 ELSE q

\* the float nearest to num / den, for num >= 0 and den > 0
Float64(num, den) ==
    IF num = 0 THEN <<0, 1>>
    ELSE LET up == {e \in 0..MaxExponent :
                      /\ 2^(MantissaBits - 1) * 2^e * den <= num
                      /\ num < 2^MantissaBits * 2^e * den}
             dn == {e \in 1..MaxExponent :
                      /\ 2^(MantissaBits - 1) * den <= num * 2^e
                      /\ num * 2^e < 2^MantissaBits * den}
         IN IF up # {}
            THEN LET e == CHOOSE e \in up : TRUE
                 IN <<RoundHalfEven(num, den * 2^e) * 2^e, 1>>
            ELSE LET e == CHOOSE e \in dn : TRUE
                 IN <<RoundHalfEven(num * 2^e, den), 2^e>>

Float64Div(x, y) == Float64(x[1] * y[2], x[2] * y[1])

Float64Mul(x, y) == Float64(x[1] * y[1], x[2] * y[2])

Float64Add(x, y) == Float64(x[1] * y[2] + y[1] * x[2], x[2] * y[2])

\* CalculatePayslip with its float64 operations
CalculatePayslipFloat64(u, id, payslipId, baseSalary) ==
    LET p    == periods[id]
        atts == GetAttendancesByUserIDAndPeriod(u, p.start_date, p.end_date)
        ots  == GetOvertimesByUserIDAndPeriod(u, p.start_date, p.end_date)
        rbs  == GetReimbursementsByUserIDAndPeriod(u, p.start_date, p.end_date)
        totalWorkedHours == Float64(TotalWorkedHours(atts, p), 1)
        totalPossibleWorkingHours == Float64(TotalPossibleWorkingHours(p), 1)
        hourlyRate ==
            IF totalPossibleWorkingHours[1] > 0
            THEN Float64Div(Float64(baseSalary, 1), totalPossibleWorkingHours)
            ELSE <<0, 1>>
        proratedSalary ==
            IF totalPossibleWorkingHours[1] > 0
            THEN Float64Mul(hourlyRate, totalWorkedHours)
            ELSE <<0, 1>>
        totalOvertimeHours == Float64(SetSum({<<o.id, o.hours>> : o \in ots}), 1)
        overtimePay ==
            Float64Mul(Float64Mul(totalOvertimeHours, hourlyRate),
                       Float64(OvertimeMultiplier, 1))
        totalReimbursement == Float64(TotalReimbursement(rbs), 1)
    IN [payslip |-> {[id |-> payslipId, user |-> u, period |-> id,
                      base_salary |-> baseSalary,
                      prorated_salary |-> proratedSalary,
                      overtime_pay |-> overtimePay,
                      total_reimbursement |-> totalReimbursement,
                      total_take_home_pay |->
                          Float64Add(Float64Add(proratedSalary, overtimePay),
                                     totalReimbursement)]},
        att |-> Tagged(atts, id),
        ot  |-> Tagged(ots, id),
        rb  |-> Tagged(rbs, id)]

\* ---- PayrollService.RunPayroll ------------------------------------------
Rollback(r, e) == [NoRun EXCEPT !.pc = "failed", !.period = run[r].period,
                                !.err = e]

LoadErrorNoProcessedCheck(id) ==
    IF GetPayrollPeriodByID(id) = {} THEN "not_found" ELSE ""

\* the guards on the loaded period
LoadError(id) ==
    IF GetPayrollPeriodByID(id) = {} THEN "not_found"
    ELSE IF periods[id].is_processed THEN "already_processed"
    ELSE ""

\* begin the transaction, load the period and the employee profiles
RunLoad(r, id) ==
    /\ run[r].pc = "idle"
    /\ run' = [run EXCEPT ![r] =
          IF LoadError(id) # ""
          THEN [NoRun EXCEPT !.pc = "failed", !.period = id,
                             !.err = LoadError(id)]
          ELSE [NoRun EXCEPT !.pc = "employees", !.period = id,
                             !.todo = GetAllEmployeeProfiles]]
    /\ UNCHANGED <<now, periods, attendances, overtimes, reimbursements,
                   payslips, auditLog, nextId, call, submits, marks, auditUp>>

\* CalculatePayslip for the next employee (reads through r.db)
RunCalculate(r, e) ==
    /\ run[r].pc = "employees"
    /\ e \in run[r].todo
    /\ run' = [run EXCEPT ![r].pc = "calculated",
                          ![r].todo = @ \ {e},
                          ![r].calc = CalculatePayslip(e, run[r].period, <<r, e>>)]
    /\ UNCHANGED <<now, periods, attendances, overtimes, reimbursements,
                   payslips, auditLog, nextId, call, submits, marks, auditUp>>

\* CalculatePayslip for the next employee, whose profile holds baseSalary
RunCalculateFloat64(r, e, baseSalary) ==
    /\ run[r].pc = "employees"
    /\ e \in run[r].todo
    /\ run' = [run EXCEPT ![r].pc = "calculated",
                          ![r].todo = @ \ {e},
                          ![r].calc = CalculatePayslipFloat64(
                                         e, run[r].period, <<r, e>>, baseSalary)]
    /\ UNCHANGED <<now, periods, attendances, overtimes, reimbursements,
                   payslips, auditLog, nextId, call, submits, marks, auditUp>>

RunSaveAuditFatal(r) ==
    /\ run[r].pc = "calculated"
    /\ Ids(run[r].calc.att) \cap LockedAtt(r) = {}
    /\ Ids(run[r].calc.ot) \cap LockedOt(r) = {}
    /\ Ids(run[r].calc.rb) \cap LockedRb(r) = {}
    /\ run' = [run EXCEPT ![r] =
          IF auditUp
          THEN [run[r] EXCEPT !.pc = "employees",
                              !.calc = NoCalc,
                              !.txPayslips = @ \cup run[r].calc.payslip,
                              !.txAtt = SaveAll(@, run[r].calc.att),
                              !.txOt = SaveAll(@, run[r].calc.ot),
                              !.txRb = SaveAll(@, run[r].calc.rb)]
          ELSE Rollback(r, "audit_error")]
    /\ auditLog' = CreateAuditLog("CREATE", "Payslip",
                                  (CHOOSE s \in run[r].calc.payslip : TRUE).id)
    /\ UNCHANGED <<now, periods, attendances, overtimes, reimbursements,
                   payslips, nextId, call, submits, marks, auditUp>>

\* CreatePayslipTx, UpdateAttendancesTx, UpdateOvertimesTx,
\* UpdateReimbursementsTx through tx, then the payslip audit entry
RunSave(r) ==
    /\ run[r].pc = "calculated"
    /\ Ids(run[r].calc.att) \cap LockedAtt(r) = {}
    /\ Ids(run[r].calc.ot) \cap LockedOt(r) = {}
    /\ Ids(run[r].calc.rb) \cap LockedRb(r) = {}
    /\ run' = [run EXCEPT ![r].pc = "employees",
                          ![r].calc = NoCalc,
                          ![r].txPayslips = @ \cup run[r].calc.payslip,
                          ![r].txAtt = SaveAll(@, run[r].calc.att),
                          ![r].txOt = SaveAll(@, run[r].calc.ot),
                          ![r].txRb = SaveAll(@, run[r].calc.rb)]
    /\ auditLog' = CreateAuditLog("CREATE", "Payslip",
                                  (CHOOSE s \in run[r].calc.payslip : TRUE).id)
    /\ UNCHANGED <<now, periods, attendances, overtimes, reimbursements,
                   payslips, nextId, call, submits, marks, auditUp>>

RunErrorCommits(r) ==
    /\ run[r].pc = "calculated"
    /\ run' = [run EXCEPT ![r] = Rollback(r, "store_error")]
    /\ payslips' = payslips \cup run[r].txPayslips
    /\ attendances' = SaveAll(attendances, run[r].txAtt)
    /\ overtimes' = SaveAll(overtimes, run[r].txOt)
    /\ reimbursements' = SaveAll(reimbursements, run[r].txRb)
    /\ UNCHANGED <<now, periods, auditLog, nextId, call, submits, marks, auditUp>>

\* an error returned by the calculator or by one of the writes of an
\* employee: the transaction is rolled back
RunError(r) ==
    /\ run[r].pc = "calculated"
    /\ run' = [run EXCEPT ![r] = Rollback(r, "store_error")]
    /\ UNCHANGED <<now, periods, attendances, overtimes, reimbursements,
                   payslips, auditLog, nextId, call, submits, marks, auditUp>>

RowsAffectedUnconditional(id) == 1

\* rows matched by WHERE id = ? AND is_processed = false
RowsAffected(id) ==
    IF id \in DOMAIN periods /\ ~periods[id].is_processed THEN 1 ELSE 0

\* MarkPayrollPeriodAsProcessedTx: the conditional UPDATE, which waits for the
\* row lock and then looks at the committed row
MarkPayrollPeriodAsProcessedTx(r) ==
    /\ run[r].pc = "employees"
    /\ run[r].todo = {}
    /\ ~LockedPeriod(r, run[r].period)
    /\ IF RowsAffected(run[r].period) = 0
       THEN /\ run' = [run EXCEPT ![r] = Rollback(r, "no_rows_updated")]
            /\ UNCHANGED auditLog
       ELSE /\ run' = [run EXCEPT ![r].pc = "marked", ![r].stamp = now]
            /\ auditLog' = CreateAuditLog("UPDATE", "PayrollPeriod",
                                          run[r].period)
    /\ UNCHANGED <<now, periods, attendances, overtimes, reimbursements,
                   payslips, nextId, call, submits, marks, auditUp>>

\* return nil: the transaction commits
RunCommit(r) ==
    /\ run[r].pc = "marked"
    /\ payslips' = payslips \cup run[r].txPayslips
    /\ attendances' = SaveAll(attendances, run[r].txAtt)
    /\ overtimes' = SaveAll(overtimes, run[r].txOt)
    /\ reimbursements' = SaveAll(reimbursements, run[r].txRb)
    /\ periods' = [periods EXCEPT ![run[r].period].is_processed = TRUE,
                                  ![run[r].period].processed_at = run[r].stamp]
    /\ run' = [run EXCEPT ![r] = [NoRun EXCEPT !.pc = "committed",
                                               !.period = run[r].period]]
    /\ UNCHANGED <<now, auditLog, nextId, call, submits, marks, auditUp>>

\* ---- the system ---------------------------------------------------------
Submissions(cs, hs) ==
    \/ \E c \in cs, u \in Employees, d \in Dates,
          in \in CheckInHours, out \in CheckOutHours :
          SubmitAttendanceLookup(c, u, d, in, out)
    \/ \E c \in cs : SubmitAttendanceWrite(c)
    \/ \E c \in cs, u \in Employees, d \in Dates, h \in hs :
          SubmitOvertimeCheck(c, u, d, h)
    \/ \E c \in cs : SubmitOvertimeCreate(c)
    \/ \E c \in cs, u \in Employees, amount \in Amounts :
          SubmitReimbursement(c, u, amount)

Next ==
    \/ Tick
    \/ Submissions({"c1"}, {1})
    \/ \E id \in PeriodIds : MarkPayrollPeriodAsProcessed(id)
    \/ \E r \in Runs, id \in PeriodIds : RunLoad(r, id)
    \/ \E r \in Runs, e \in Employees : RunCalculate(r, e)
    \/ \E r \in Runs : RunSave(r)
    \/ \E r \in Runs : RunError(r)
    \/ \E r \in Runs : MarkPayrollPeriodAsProcessedTx(r)
    \/ \E r \in Runs : RunCommit(r)

Spec == Init /\ [][Next]_vars

\* two clients submitting overtime concurrently
NextOvertime ==
    \/ \E c \in Calls, u \in Employees, d \in Dates, h \in OvertimeHours :
          SubmitOvertimeCheck(c, u, d, h)
    \/ \E c \in Calls : SubmitOvertimeCreate(c)

SpecOvertime == Init /\ [][NextOvertime]_vars

\* two clients submitting attendance concurrently
NextAttendance ==
    \/ \E c \in Calls, u \in Employees, d \in AttendanceDates,
          in \in CheckInHours, out \in CheckOutHours :
          SubmitAttendanceLookup(c, u, d, in, out)
    \/ \E c \in Calls : SubmitAttendanceWrite(c)

SpecAttendance == Init /\ [][NextAttendance]_vars

\* two admins creating payroll periods concurrently
NextPeriods ==
    \/ \E c \in Calls, startDate \in PeriodDates, endDate \in PeriodDates :
          CreatePayrollPeriodCheck(c, startDate, endDate)
    \/ \E c \in Calls : CreatePayrollPeriodCreate(c)

SpecPeriods == Init /\ [][NextPeriods]_vars

\* one payroll run over a store drawn from the calculator's input space:
\* the period range, the check-out hours of e1's two attendance records and
\* the creation time of e1's reimbursement
InitCalc ==
    /\ now = Midnight(7)
    /\ \E range \in CalcRanges :
          periods = (1 :> [start_date |-> range[1], end_date |-> range[2],
                           is_processed |-> FALSE, processed_at |-> NULL])
    /\ \E out1 \in CalcCheckOutHours, out2 \in CalcCheckOutHours :
          attendances = {[id |-> 1, user |-> "e1", date |-> 1,
                          check_in |-> 9, check_out |-> out1, period |-> NULL],
                         [id |-> 4, user |-> "e1", date |-> 2,
                          check_in |-> 9, check_out |-> out2, period |-> NULL]}
    /\ overtimes = {[id |-> 2, user |-> "e1", date |-> 1, hours |-> 2,
                     period |-> NULL],
                    [id |-> 5, user |-> "e2", date |-> 3, hours |-> 2,
                     period |-> NULL]}
    /\ \E t \in CalcCreatedAt :
          reimbursements = {[id |-> 3, user |-> "e1", amount |-> 50,
                             created_at |-> t, period |-> NULL]}
    /\ payslips = {}
    /\ auditLog = SetToBag({AuditEntry("CREATE", "Attendance", 1),
                            AuditEntry("CREATE", "Overtime", 2),
                            AuditEntry("CREATE", "Reimbursement", 3),
                            AuditEntry("CREATE", "Attendance", 4),
                            AuditEntry("CREATE", "Overtime", 5)})
    /\ nextId = 6
    /\ run = [r \in Runs |-> NoRun]
    /\ call = [c \in Calls |-> NoCall]
    /\ submits = [c \in Calls |-> 0]
    /\ marks = 0
    /\ auditUp = TRUE

NextCalc ==
    \/ \E id \in PeriodIds : RunLoad("r1", id)
    \/ \E e \in Employees : RunCalculate("r1", e)
    \/ RunSave("r1")
    \/ RunError("r1")
    \/ MarkPayrollPeriodAsProcessedTx("r1")
    \/ RunCommit("r1")

SpecCalc == InitCalc /\ [][NextCalc]_vars

\* payslip readers running next to payroll runs
NextReaders ==
    \/ \E c \in Calls, u \in Employees, id \in PeriodIds :
          GetEmployeePayslipPeriod(c, u, id)
    \/ \E c \in Calls : GetEmployeePayslipRead(c)
    \/ \E c \in Calls, id \in PeriodIds : GetPayslipSummaryPeriod(c, id)
    \/ \E c \in Calls : GetPayslipSummaryRead(c)
    \/ \E id \in PeriodIds : MarkPayrollPeriodAsProcessed(id)
    \/ \E r \in Runs, id \in PeriodIds : RunLoad(r, id)
    \/ \E r \in Runs, e \in Employees : RunCalculate(r, e)
    \/ \E r \in Runs : RunSave(r)
    \/ \E r \in Runs : RunError(r)
    \/ \E r \in Runs : MarkPayrollPeriodAsProcessedTx(r)
    \/ \E r \in Runs : RunCommit(r)

SpecReaders == Init /\ [][NextReaders]_vars

\* two stored periods, 1..2 and 5..6, with records of both employees
InitTwoPeriods ==
    /\ now = Midnight(7)
    /\ periods = (1 :> [start_date |-> 1, end_date |-> 2,
                        is_processed |-> FALSE, processed_at |-> NULL])
                  @@ (2 :> [start_date |-> 5, end_date |-> 6,
                            is_processed |-> FALSE, processed_at |-> NULL])
    /\ attendances = {[id |-> 1, user |-> "e1", date |-> 1,
                       check_in |-> 9, check_out |-> 17, period |-> NULL],
                      [id |-> 4, user |-> "e1", date |-> 5,
                       check_in |-> 9, check_out |-> 17, period |-> NULL],
                      [id |-> 5, user |-> "e2", date |-> 6,
                       check_in |-> 9, check_out |-> 17, period |-> NULL]}
    /\ overtimes = {[id |-> 2, user |-> "e1", date |-> 1, hours |-> 2,
                     period |-> NULL],
                    [id |-> 6, user |-> "e2", date |-> 5, hours |-> 1,
                     period |-> NULL]}
    /\ reimbursements = {[id |-> 3, user |-> "e1", amount |-> 50,
                          created_at |-> Midnight(1) + 1, period |-> NULL],
                         [id |-> 7, user |-> "e2", amount |-> 50,
                          created_at |-> Midnight(5) + 1, period |-> NULL]}
    /\ payslips = {}
    /\ auditLog = SetToBag({AuditEntry("CREATE", "Attendance", 1),
                            AuditEntry("CREATE", "Overtime", 2),
                            AuditEntry("CREATE", "Reimbursement", 3),
                            AuditEntry("CREATE", "Attendance", 4),
                            AuditEntry("CREATE", "Attendance", 5),
                            AuditEntry("CREATE", "Overtime", 6),
                            AuditEntry("CREATE", "Reimbursement", 7)})
    /\ nextId = 8
    /\ run = [r \in Runs |-> NoRun]
    /\ call = [c \in Calls |-> NoCall]
    /\ submits = [c \in Calls |-> 0]
    /\ marks = 0
    /\ auditUp = TRUE

NextTwoPeriods ==
    \/ \E r \in Runs, id \in PeriodIds : RunLoad(r, id)
    \/ \E r \in Runs, e \in Employees : RunCalculate(r, e)
    \/ \E r \in Runs : RunSave(r)
    \/ \E r \in Runs : RunError(r)
    \/ \E r \in Runs : MarkPayrollPeriodAsProcessedTx(r)
    \/ \E r \in Runs : RunCommit(r)

SpecTwoPeriods == InitTwoPeriods /\ [][NextTwoPeriods]_vars

\* a store that also holds records dated outside period 1 and records of
\* "u3", a registered user with the employee role and no employee profile
InitFrame ==
    /\ now = Midnight(6)
    /\ periods = (1 :> [start_date |-> 1, end_date |-> 2,
                        is_processed |-> FALSE, processed_at |-> NULL])
    /\ attendances = {[id |-> 1, user |-> "e1", date |-> 1,
                       check_in |-> 9, check_out |-> 17, period |-> NULL],
                      [id |-> 4, user |-> "u3", date |-> 2,
                       check_in |-> 9, check_out |-> 17, period |-> NULL],
                      [id |-> 5, user |-> "e2", date |-> 5,
                       check_in |-> 9, check_out |-> 17, period |-> NULL]}
    /\ overtimes = {[id |-> 2, user |-> "e1", date |-> 1, hours |-> 2,
                     period |-> NULL],
                    [id |-> 6, user |-> "u3", date |-> 1, hours |-> 1,
                     period |-> NULL],
                    [id |-> 7, user |-> "e1", date |-> 3, hours |-> 1,
                     period |-> NULL]}
    /\ reimbursements = {[id |-> 3, user |-> "e1", amount |-> 50,
                          created_at |-> Midnight(1) + 1, period |-> NULL],
                         [id |-> 8, user |-> "u3", amount |-> 50,
                          created_at |-> Midnight(1) + 1, period |-> NULL],
                         [id |-> 9, user |-> "e2", amount |-> 50,
                          created_at |-> Midnight(3) + 1, period |-> NULL]}
    /\ payslips = {}
    /\ auditLog = SetToBag({AuditEntry("CREATE", "Attendance", 1),
                            AuditEntry("CREATE", "Overtime", 2),
                            AuditEntry("CREATE", "Reimbursement", 3),
                            AuditEntry("CREATE", "Attendance", 4),
                            AuditEntry("CREATE", "Attendance", 5),
                            AuditEntry("CREATE", "Overtime", 6),
                            AuditEntry("CREATE", "Overtime", 7),
                            AuditEntry("CREATE", "Reimbursement", 8),
                            AuditEntry("CREATE", "Reimbursement", 9)})
    /\ nextId = 10
    /\ run = [r \in Runs |-> NoRun]
    /\ call = [c \in Calls |-> NoCall]
    /\ submits = [c \in Calls |-> 0]
    /\ marks = 0
    /\ auditUp = TRUE

NextFrame ==
    \/ Submissions({"c1"}, {1})
    \/ \E id \in PeriodIds : RunLoad("r1", id)
    \/ \E e \in Employees : RunCalculate("r1", e)
    \/ RunSave("r1")
    \/ RunError("r1")
    \/ MarkPayrollPeriodAsProcessedTx("r1")
    \/ RunCommit("r1")

SpecFrame == InitFrame /\ [][NextFrame]_vars

\* two admins creating periods concurrently and running payroll on the
\* periods they created, over a store that has an overtime record of e1 on
\* Monday, date 5
InitDoublePay ==
    /\ now = Midnight(7)
    /\ periods = (1 :> [start_date |-> 1, end_date |-> 2,
                        is_processed |-> FALSE, processed_at |-> NULL])
    /\ attendances = {[id |-> 1, user |-> "e1", date |-> 1,
                       check_in |-> 9, check_out |-> 17, period |-> NULL]}
    /\ overtimes = {[id |-> 2, user |-> "e1", date |-> 1, hours |-> 2,
                     period |-> NULL],
                    [id |-> 4, user |-> "e1", date |-> 5, hours |-> 1,
                     period |-> NULL]}
    /\ reimbursements = {[id |-> 3, user |-> "e1", amount |-> 50,
                          created_at |-> Midnight(1) + 1, period |-> NULL]}
    /\ payslips = {}
    /\ auditLog = SetToBag({AuditEntry("CREATE", "Attendance", 1),
                            AuditEntry("CREATE", "Overtime", 2),
                            AuditEntry("CREATE", "Reimbursement", 3),
                            AuditEntry("CREATE", "Overtime", 4)})
    /\ nextId = 5
    /\ run = [r \in Runs |-> NoRun]
    /\ call = [c \in Calls |-> NoCall]
    /\ submits = [c \in Calls |-> 0]
    /\ marks = 0
    /\ auditUp = TRUE

NextDoublePay ==
    \/ \E c \in Calls, startDate \in OverlapStartDates,
          endDate \in OverlapEndDates :
          CreatePayrollPeriodCheck(c, startDate, endDate)
    \/ \E c \in Calls : CreatePayrollPeriodCreate(c)
    \/ \E r \in Runs, id \in CreatedPeriodIds : RunLoad(r, id)
    \/ \E r \in Runs, e \in Employees : RunCalculate(r, e)
    \/ \E r \in Runs : RunSave(r)
    \/ \E r \in Runs : RunError(r)
    \/ \E r \in Runs : MarkPayrollPeriodAsProcessedTx(r)
    \/ \E r \in Runs : RunCommit(r)

SpecDoublePay == InitDoublePay /\ [][NextDoublePay]_vars

\* one payroll run computed in float arithmetic: e1 attended every weekday
\* of dates 1..9 for the full eight hours, and the salaries of the profiles
\* are drawn from FloatSalaries
InitFloat ==
    /\ now = Midnight(10)
    /\ \E range \in FloatRanges :
          periods = (1 :> [start_date |-> range[1], end_date |-> range[2],
                           is_processed |-> FALSE, processed_at |-> NULL])
    /\ attendances = {[id |-> d, user |-> "e1", date |-> d,
                       check_in |-> 9, check_out |-> 17, period |-> NULL] :
                        d \in {1, 2, 5, 6, 7, 8, 9}}
    /\ overtimes = {[id |-> 3, user |-> "e1", date |-> 1, hours |-> 2,
                     period |-> NULL]}
    /\ reimbursements = {[id |-> 4, user |-> "e1", amount |-> 50,
                          created_at |-> Midnight(1) + 1, period |-> NULL]}
    /\ payslips = {}
    /\ auditLog = SetToBag({AuditEntry("CREATE", "Attendance", d) :
                               d \in {1, 2, 5, 6, 7, 8, 9}}
                           \cup {AuditEntry("CREATE", "Overtime", 3),
                                 AuditEntry("CREATE", "Reimbursement", 4)})
    /\ nextId = 10
    /\ run = [r \in Runs |-> NoRun]
    /\ call = [c \in Calls |-> NoCall]
    /\ submits = [c \in Calls |-> 0]
    /\ marks = 0
    /\ auditUp = TRUE

NextFloat ==
    \/ \E id \in PeriodIds : RunLoad("r1", id)
    \/ \E e \in Employees, baseSalary \in FloatSalaries :
          RunCalculateFloat64("r1", e, baseSalary)
    \/ RunSave("r1")
    \/ RunError("r1")
    \/ MarkPayrollPeriodAsProcessedTx("r1")
    \/ RunCommit("r1")

SpecFloat == InitFloat /\ [][NextFloat]_vars

\* the operations that write audit entries, with an audit sink that may fail
NextAudit ==
    \/ AuditRepoOutage
    \/ Submissions({"c1"}, {1})
    \/ \E startDate \in PeriodDates, endDate \in PeriodDates :
          CreatePayrollPeriodCheck("c1", startDate, endDate)
    \/ CreatePayrollPeriodCreate("c1")
    \/ \E id \in PeriodIds : RunLoad("r1", id)
    \/ \E e \in Employees : RunCalculate("r1", e)
    \/ RunSave("r1")
    \/ RunError("r1")
    \/ MarkPayrollPeriodAsProcessedTx("r1")
    \/ RunCommit("r1")

SpecAudit == Init /\ [][NextAudit]_vars

\* ---- properties ---------------------------------------------------------
PayslipsOf(r) == {s \in payslips : s.id[1] = r}

TaggedWith(table, id) == {x \in table : x.period = id}

\* C1: of the RunPayroll invocations on one period at most one commits; every
\* other one ends with an error and none of its payslips is in the store.
C1_AtMostOneRunCommits ==
    /\ \A r1, r2 \in Runs :
          (/\ run[r1].pc = "committed"
           /\ run[r2].pc = "committed"
           /\ run[r1].period = run[r2].period) => r1 = r2
    /\ \A r \in Runs : run[r].pc = "failed" => PayslipsOf(r) = {}

\* two runs raced on the same open period: one committed, the conditional
\* update of the other matched no row
C1_Witness ==
    /\ marks = 0
    /\ \E r1, r2 \in Runs :
          /\ run[r1].pc = "committed"
          /\ run[r2].pc = "failed"
          /\ run[r2].err = "no_rows_updated"
          /\ run[r2].period = run[r1].period

\* C2: RunPayroll is all-or-nothing: no step of an invocation other than its
\* commit changes a table, a failed invocation leaves none of its payslips,
\* and when nothing else processed the period a failed invocation leaves the
\* period open, without payslips and without tagged records.
C2_AllOrNothing ==
    /\ [][\A r \in Runs :
            (run'[r] # run[r] /\ run'[r].pc # "committed") => tables' = tables]_vars
    /\ [](\A r \in Runs :
            (/\ run[r].pc = "failed"
             /\ run[r].err \in {"store_error", "no_rows_updated"}
             /\ marks = 0
             /\ \A q \in Runs : ~(run[q].pc = "committed"
                                  /\ run[q].period = run[r].period))
            => /\ PayslipsOf(r) = {}
               /\ ~periods[run[r].period].is_processed
               /\ {s \in payslips : s.period = run[r].period} = {}
               /\ TaggedWith(attendances, run[r].period) = {}
               /\ TaggedWith(overtimes, run[r].period) = {}
               /\ TaggedWith(reimbursements, run[r].period) = {})

\* an invocation failed on its second employee after it had saved the payslip
\* of the first one inside the transaction
C2_Witness ==
    \E r \in Runs, e \in Employees :
        /\ run[r].pc = "failed"
        /\ run[r].err = "store_error"
        /\ BagIn(AuditEntry("CREATE", "Payslip", <<r, e>>), auditLog)
        /\ payslips = {}
        /\ ~periods[run[r].period].is_processed

\* C3: RunPayroll on a processed or missing period fails at once and leaves
\* every table and the audit log as they were, and a returned invocation takes
\* no further step.
C3_RejectedRunLeavesStore ==
    /\ [][\A r \in Runs, id \in PeriodIds :
            (RunLoad(r, id) /\ (id \notin DOMAIN periods \/ periods[id].is_processed))
            => /\ run'[r].pc = "failed"
               /\ tables' = tables
               /\ auditLog' = auditLog]_vars
    /\ [][\A r \in Runs : run[r].pc = "failed" => run'[r] = run[r]]_vars

\* a second call after a successful first call
C3_Witness ==
    \E r1, r2 \in Runs :
        /\ run[r1].pc = "committed"
        /\ run[r2].pc = "failed"
        /\ run[r2].err = "already_processed"
        /\ run[r2].period = run[r1].period

\* C4: the store never holds two payslips of one employee for one period, and
\* a stored payslip is never changed or removed.
C4_OnePayslipPerEmployeePeriod ==
    /\ [](\A s1, s2 \in payslips :
            (s1.user = s2.user /\ s1.period = s2.period) => s1 = s2)
    /\ [][payslips \subseteq payslips']_vars

\* a committed run and a failed one on the same period
C4_Witness ==
    \E r1, r2 \in Runs :
        /\ run[r1].pc = "committed"
        /\ run[r2].pc = "failed"
        /\ run[r2].err = "store_error"
        /\ run[r2].period = run[r1].period
        /\ Cardinality(payslips) = Cardinality(Employees)

\* C5: once a period is processed, nothing changes its flag, its processed_at
\* or its payslips.
C5_ProcessedIsTerminal ==
    [][\A id \in DOMAIN periods :
          periods[id].is_processed
          => /\ periods'[id] = periods[id]
             /\ {s \in payslips' : s.period = id} = {s \in payslips : s.period = id}]_vars

\* C6: when a run commits, each payslip of the period is exactly what the
\* records tagged with the period give: a record is counted if and only if it
\* is tagged, and the tagged records lie in the period.
C6_IncludedOrExcluded ==
    [][\A r \in Runs :
          RunCommit(r)
          => \A s \in {x \in payslips' : x.period = run[r].period} :
                LET p    == periods[s.period]
                    atts == {a \in TaggedWith(attendances', s.period) : a.user = s.user}
                    ots  == {o \in TaggedWith(overtimes', s.period) : o.user = s.user}
                    rbs  == {b \in TaggedWith(reimbursements', s.period) : b.user = s.user}
                IN /\ s.prorated_salary = ProratedSalary(s.base_salary, atts, p)
                   /\ s.overtime_pay = OvertimePay(s.base_salary, ots, p)
                   /\ s.total_reimbursement = TotalReimbursement(rbs)
                   /\ s.total_take_home_pay = s.prorated_salary + s.overtime_pay
                                              + s.total_reimbursement
                   /\ \A a \in atts \cup ots :
                         a.date >= p.start_date /\ a.date <= p.end_date
                   /\ \A b \in rbs :
                         /\ b.created_at >= Midnight(p.start_date)
                         /\ b.created_at <= Midnight(p.end_date)]_vars

\* a submission landed while the run was in flight: the attendance record was
\* updated after the run had read it, and the run committed
C6_Witness ==
    \E r \in Runs :
        /\ run[r].pc = "committed"
        /\ \E x \in BagToSet(auditLog) :
              x.action = "UPDATE" /\ x.entity = "Attendance" /\ x.entity_id = 1
        /\ \E a \in attendances :
              a.id = 1 /\ a.check_out = 17 /\ a.period = run[r].period

\* C7: a SubmitAttendance call that finds a record attached to a period does
\* not change the check_in or check_out of any attached record.
C7_LockedRecordsNotMutated ==
    [][\A c \in Calls :
          (SubmitAttendanceWrite(c) /\ \E a \in call[c].existing : a.period # NULL)
          => \A a \in attendances :
                a.period # NULL
                => \E b \in attendances' :
                      /\ b.id = a.id
                      /\ b.check_in = a.check_in
                      /\ b.check_out = a.check_out]_vars

\* C8: a committed run leaves exactly one payslip of the period per profiled
\* employee, and an employee without any record in the period's range gets
\* base_salary = salary and zero in the other amounts.
C8_PayslipPerProfiledEmployee ==
    [][\A r \in Runs :
          RunCommit(r)
          => LET id == run[r].period
                 p  == periods[id]
                 ps == {s \in payslips' : s.period = id}
             IN /\ {s.user : s \in ps} = Employees
                /\ Cardinality(ps) = Cardinality(Employees)
                /\ \A s \in ps :
                      (/\ {a \in attendances' : a.user = s.user
                              /\ a.date >= p.start_date /\ a.date <= p.end_date} = {}
                       /\ {o \in overtimes' : o.user = s.user
                              /\ o.date >= p.start_date /\ o.date <= p.end_date} = {}
                       /\ {b \in reimbursements' : b.user = s.user
                              /\ b.created_at >= Midnight(p.start_date)
                              /\ b.created_at <= Midnight(p.end_date)} = {})
                      => /\ s.base_salary = Salary[s.user]
                         /\ s.prorated_salary = 0
                         /\ s.overtime_pay = 0
                         /\ s.total_reimbursement = 0
                         /\ s.total_take_home_pay = 0]_vars

\* the run committed; e2, who submitted nothing, has an all-zero payslip and
\* e1 is paid for the initial records
C8_Witness ==
    /\ \E r \in Runs : run[r].pc = "committed"
    /\ \E s \in payslips :
          s.user = "e2" /\ s.base_salary = 3200 /\ s.total_take_home_pay = 0
    /\ \E s \in payslips :
          s.user = "e1" /\ s.total_take_home_pay = 1250
    /\ \A x \in attendances \cup overtimes \cup reimbursements : x.user = "e1"

\* C9: the overtime hours of an employee on one date never sum to more than 3.
C9_DailyOvertimeCap ==
    \A u \in Employees, d \in Dates : TotalHoursToday(u, d) <= 3

C11_WeekendRejected ==
    /\ [][\A c \in Calls, u \in Employees, d \in AttendanceDates,
             in \in CheckInHours, out \in CheckOutHours :
            (SubmitAttendanceLookup(c, u, d, in, out) /\ Weekday(d) \in {0, 6})
            => /\ call'[c].op = "none"
               /\ call'[c].err = "weekend"
               /\ tables' = tables
               /\ auditLog' = auditLog
               /\ nextId' = nextId]_vars
    /\ [](\A a \in attendances : Weekday(a.date) \notin {0, 6})

\* a submission for Saturday (date 3) was rejected while the other client
\* stored a record for Friday
C11_Witness ==
    \E c1, c2 \in Calls :
        /\ call[c1].err = "weekend"
        /\ call[c2].op = "none" /\ call[c2].err = ""
        /\ \E a \in attendances : a.date = 2

\* C12: the store never holds two attendance records of one employee for one
\* date, also when two calls for the same employee and date both look up
\* before either inserts.
C12_OneAttendancePerEmployeeDate ==
    \A a1, a2 \in attendances :
        (a1.user = a2.user /\ a1.date = a2.date) => a1 = a2

\* two calls for the same employee and date both found no record; one
\* inserted, the insert of the other was refused by the unique index
C12_Witness ==
    \E c \in Calls :
        /\ call[c].err = "unique_violation"
        /\ \E a \in attendances :
              /\ a.user = call[c].user
              /\ a.date = call[c].date
              /\ a.id >= 4

\* C13: every stored period has start_date < end_date and no two stored
\* periods have ranges sharing a date, also when two CreatePayrollPeriod calls
\* run concurrently.
C13_PeriodsValidDisjoint ==
    /\ \A i \in DOMAIN periods : periods[i].start_date < periods[i].end_date
    /\ \A i, j \in DOMAIN periods :
          i # j => \/ periods[i].end_date < periods[j].start_date
                   \/ periods[j].end_date < periods[i].start_date

\* C14: an attendance record dated within the period counts 8 hours when
\* check_out - check_in is at least 8 hours and 0 hours when it is less (also
\* when it is negative); the total is the sum over the records, and the
\* prorated salary of a computed payslip is the hourly rate times that total.
C14_WorkedHoursClamp ==
    /\ [](\A id \in DOMAIN periods, u \in Employees :
            LET p    == periods[id]
                atts == {a \in attendances : /\ a.user = u
                                             /\ a.date >= p.start_date
                                             /\ a.date <= p.end_date}
                full == {a \in atts : a.check_out - a.check_in >= 8}
            IN /\ \A a \in full : WorkedHours(a) = 8
               /\ \A a \in atts \ full : WorkedHours(a) = 0
               /\ TotalWorkedHours(atts, p) = 8 * Cardinality(full))
    /\ [][\A r \in Runs, u \in Employees :
            RunCalculate(r, u)
            => LET p    == periods[run[r].period]
                   full == {a \in attendances : /\ a.user = u
                                                /\ a.date >= p.start_date
                                                /\ a.date <= p.end_date
                                                /\ a.check_out - a.check_in >= 8}
               IN \A s \in run'[r].calc.payslip :
                     s.prorated_salary =
                        HourlyRate(s.base_salary, p) * 8 * Cardinality(full)]_vars

\* a committed run over a 10-hour day and a 5-hour day: e1 is paid 8 hours
C14_Witness ==
    /\ run["r1"].pc = "committed"
    /\ periods[1].start_date = 1 /\ periods[1].end_date = 2
    /\ \E a \in attendances : a.date = 1 /\ a.check_out = 19 /\ a.period = 1
    /\ \E a \in attendances : a.date = 2 /\ a.check_out = 14 /\ a.period = 1
    /\ \E s \in payslips : s.user = "e1" /\ s.prorated_salary = 800

\* C15: a computed payslip has prorated_salary = hourly rate x worked hours,
\* overtime_pay = overtime hours x hourly rate x 2 and total_take_home_pay =
\* prorated_salary + overtime_pay + total_reimbursement, where the hourly
\* rate is base_salary / (8 x number of non-weekend dates of the period); the
\* worked example of 2025-09-01..2025-09-12 (dates 5..16) gives 80 hours,
\* rate 62500, prorated 5000000, overtime pay 250000, take-home 5400000.
C15_PayslipFormulas ==
    /\ [][\A r \in Runs, u \in Employees :
            RunCalculate(r, u)
            => LET p        == periods[run[r].period]
                   weekdays == {d \in p.start_date..p.end_date :
                                   (d + 3) % 7 \notin {0, 6}}
                   possible == 8 * Cardinality(weekdays)
                   worked   == 8 * Cardinality(
                                  {a \in attendances : /\ a.user = u
                                                       /\ a.date \in weekdays
                                                       /\ a.check_out - a.check_in >= 8})
                   otHours  == SetSum({<<o.id, o.hours>> :
                                  o \in {x \in overtimes :
                                           /\ x.user = u
                                           /\ x.date >= p.start_date
                                           /\ x.date <= p.end_date}})
               IN \A s \in run'[r].calc.payslip :
                     /\ TotalPossibleWorkingHours(p) = possible
                     /\ possible > 0 =>
                           /\ s.prorated_salary * possible = s.base_salary * worked
                           /\ s.overtime_pay * possible
                                 = otHours * s.base_salary * 2
                     /\ s.total_take_home_pay =
                           s.prorated_salary + s.overtime_pay
                           + s.total_reimbursement]_vars
    /\ [](LET p    == [start_date |-> 5, end_date |-> 16]
              atts == {[id |-> d, user |-> "e1", date |-> d, check_in |-> 9,
                        check_out |-> 17, period |-> NULL] :
                          d \in (5..9) \cup (12..16)}
              ots  == {[id |-> 20, user |-> "e1", date |-> 5, hours |-> 2,
                        period |-> NULL]}
              rbs  == {[id |-> 21, user |-> "e1", amount |-> 150000,
                        created_at |-> Midnight(5) + 1, period |-> NULL]}
          IN /\ TotalPossibleWorkingHours(p) = 80
             /\ HourlyRate(5000000, p) = 62500
             /\ TotalWorkedHours(atts, p) = 80
             /\ ProratedSalary(5000000, atts, p) = 5000000
             /\ OvertimePay(5000000, ots, p) = 250000
             /\ TotalReimbursement(rbs) = 150000
             /\ ProratedSalary(5000000, atts, p) + OvertimePay(5000000, ots, p)
                   + TotalReimbursement(rbs) = 5400000)

\* a committed payslip over the period 1..6 (4 working days, rate 50): two
\* full days, 2 overtime hours and a reimbursement of 50
C15_Witness ==
    /\ run["r1"].pc = "committed"
    /\ periods[1].start_date = 1 /\ periods[1].end_date = 6
    /\ \E s \in payslips :
          /\ s.user = "e1"
          /\ s.prorated_salary = 800
          /\ s.overtime_pay = 200
          /\ s.total_reimbursement = 50
          /\ s.total_take_home_pay = 1050

\* C16: the total_reimbursement computed for an employee is the sum of the
\* employee's reimbursements created on a calendar date from start_date
\* through end_date, whatever the time of day.
C16_ReimbursementsOfPeriodDates ==
    [][\A r \in Runs, u \in Employees :
          RunCalculate(r, u)
          => LET p   == periods[run[r].period]
                 rbs == {b \in reimbursements :
                            /\ b.user = u
                            /\ b.created_at \div 2 >= p.start_date
                            /\ b.created_at \div 2 <= p.end_date}
             IN \A s \in run'[r].calc.payslip :
                   s.total_reimbursement
                      = SetSum({<<b.id, b.amount>> : b \in rbs})]_vars

\* C17: GetEmployeePayslip and GetPayslipSummaryForPeriod fail with 'payroll
\* period not found' for a missing period and with the 'processed periods
\* only' error for an unprocessed one; GetEmployeePayslip fails with 'payslip
\* not found' when the processed period has no payslip of the user; every
\* payslip a reader returns is a stored payslip of a processed period whose
\* run committed.
C17_ReadersSeeCommittedOnly ==
    /\ [][\A c \in Calls, u \in Employees, id \in PeriodIds :
            (GetEmployeePayslipPeriod(c, u, id) \/ GetPayslipSummaryPeriod(c, id))
            => /\ id \notin DOMAIN periods
                    => call'[c].op = "none" /\ call'[c].err = "period_not_found"
               /\ (id \in DOMAIN periods /\ ~periods[id].is_processed)
                    => call'[c].op = "none" /\ call'[c].err = "not_processed"
               /\ (id \in DOMAIN periods /\ periods[id].is_processed)
                    => call'[c].op \in {"payslip", "summary"}]_vars
    /\ [][\A c \in Calls :
            (/\ GetEmployeePayslipRead(c)
             /\ \A s \in payslips :
                   ~(s.user = call[c].user /\ s.period = call[c].arg))
            => call'[c].err = "payslip_not_found" /\ call'[c].existing = {}]_vars
    /\ [](\A c \in Calls :
            call[c].op = "none"
            => \A s \in call[c].existing :
                  /\ s \in payslips
                  /\ periods[s.period].is_processed
                  /\ \E r \in Runs : /\ run[r].pc = "committed"
                                      /\ run[r].period = s.period
                                      /\ s.id[1] = r)

\* one reader was refused while the run was in flight, the other got e1's
\* payslip after the commit, and a second run on the period had rolled back
C17_Witness ==
    \E c1, c2 \in Calls, r \in Runs :
        /\ call[c1].err = "not_processed"
        /\ call[c2].op = "none"
        /\ \E s \in call[c2].existing : s.user = "e1" /\ s.period = 1
        /\ run[r].pc = "failed"
        /\ run[r].err = "no_rows_updated"

\* C18: two RunPayroll invocations on different periods never make each
\* other wait or fail, and once both have committed the payslips, the record
\* tags and the period flags are those of the runs executed one after the
\* other: each record carries the period its date lies in and each payslip
\* the amounts of its own period.
C18_DifferentPeriodsIndependent ==
    /\ [](\A r, q \in Runs :
            (/\ r # q
             /\ run[r].period # run[q].period
             /\ run[r].period # NULL
             /\ run[q].period # NULL)
            => /\ run[r].err # "no_rows_updated"
               /\ run[r].pc = "calculated"
                    => /\ Ids(run[r].calc.att) \cap LockedAtt(r) = {}
                       /\ Ids(run[r].calc.ot) \cap LockedOt(r) = {}
                       /\ Ids(run[r].calc.rb) \cap LockedRb(r) = {}
               /\ ~LockedPeriod(r, run[r].period))
    /\ [][\A r, q \in Runs :
            (/\ r # q
             /\ run[r].period # run[q].period
             /\ InTx(q)
             /\ RunCommit(r))
            => LET amounts(s) == <<s.user, s.period, s.prorated_salary,
                                   s.overtime_pay, s.total_reimbursement,
                                   s.total_take_home_pay>>
                   tagOf == (1 :> 1) @@ (2 :> 1) @@ (3 :> 1) @@ (4 :> 2)
                            @@ (5 :> 2) @@ (6 :> 2) @@ (7 :> 2)
                   id == run[r].period
               IN /\ {amounts(s) : s \in {x \in payslips' : x.period = id}}
                       = IF id = 1
                         THEN {<<"e1", 1, 800, 400, 50, 1250>>,
                               <<"e2", 1, 0, 0, 0, 0>>}
                         ELSE {<<"e1", 2, 800, 0, 0, 800>>,
                               <<"e2", 2, 1600, 400, 50, 2050>>}
                  /\ \A x \in attendances' \cup overtimes' \cup reimbursements' :
                        tagOf[x.id] = id => x.period = id
                  /\ \A x \in attendances \cup overtimes \cup reimbursements :
                        /\ tagOf[x.id] = id => x.period = NULL
                        /\ tagOf[x.id] # id =>
                              \E y \in attendances' \cup overtimes'
                                        \cup reimbursements' : y = x]_vars
    /\ [](\A r, q \in Runs :
            (/\ run[r].period # run[q].period
             /\ run[r].pc = "committed"
             /\ run[q].pc = "committed")
            => LET amounts(s) == <<s.user, s.period, s.prorated_salary,
                                   s.overtime_pay, s.total_reimbursement,
                                   s.total_take_home_pay>>
                   tagOf == (1 :> 1) @@ (2 :> 1) @@ (3 :> 1) @@ (4 :> 2)
                            @@ (5 :> 2) @@ (6 :> 2) @@ (7 :> 2)
               IN /\ {amounts(s) : s \in payslips}
                       = {<<"e1", 1, 800, 400, 50, 1250>>,
                          <<"e2", 1, 0, 0, 0, 0>>,
                          <<"e1", 2, 800, 0, 0, 800>>,
                          <<"e2", 2, 1600, 400, 50, 2050>>}
                  /\ Cardinality(payslips) = 4
                  /\ \A x \in attendances \cup overtimes \cup reimbursements :
                        x.period = tagOf[x.id]
                  /\ \A id \in {1, 2} : periods[id].is_processed)

\* both transactions are open at once, each with all its writes made and its
\* period flag set, on different periods
C18_Witness ==
    /\ run["r1"].pc = "marked"
    /\ run["r2"].pc = "marked"
    /\ run["r1"].period # run["r2"].period
    /\ Cardinality(run["r1"].txPayslips) = 2
    /\ Cardinality(run["r2"].txPayslips) = 2

\* C19: a processed period has a payslip of every profiled employee, and the
\* flag and processed_at of a period change only in the commit of a RunPayroll
\* on that period.
C19_ProcessedOnlyByCommittedRun ==
    /\ [](\A id \in DOMAIN periods :
            periods[id].is_processed
            => \A e \in Employees :
                  \E s \in payslips : s.user = e /\ s.period = id)
    /\ [][\A id \in DOMAIN periods :
            (/\ id \in DOMAIN periods'
             /\ \/ periods'[id].is_processed # periods[id].is_processed
                \/ periods'[id].processed_at # periods[id].processed_at)
            => \E r \in Runs : RunCommit(r) /\ run[r].period = id]_vars

\* C20: with the audit sink failing, every operation that writes an audit
\* entry still makes its store write and returns without error, nothing is
\* added to the audit log, and a run goes on to commit.
C20_AuditFailureNotFatal ==
    /\ [][~auditUp => auditLog' = auditLog]_vars
    /\ [][\A c \in Calls :
            (~auditUp /\ SubmitAttendanceWrite(c)
               /\ (call[c].existing # {}
                      \/ \A a \in attendances : a.date # call[c].date))
            => /\ call'[c] = NoCall
               /\ \E a \in attendances' :
                     /\ a.user = call[c].user
                     /\ a.date = call[c].date
                     /\ a.check_out = call[c].arg[2]]_vars
    /\ [][\A c \in Calls :
            (~auditUp /\ SubmitOvertimeCreate(c))
            => /\ call'[c] = NoCall
               /\ \E o \in overtimes' \ overtimes :
                     o.user = call[c].user /\ o.hours = call[c].arg]_vars
    /\ [][\A c \in Calls, u \in Employees, amount \in Amounts :
            (~auditUp /\ SubmitReimbursement(c, u, amount))
            => \E b \in reimbursements' \ reimbursements :
                  b.user = u /\ b.amount = amount]_vars
    /\ [][\A c \in Calls :
            (~auditUp /\ CreatePayrollPeriodCreate(c))
            => /\ call'[c] = NoCall
               /\ \E id \in DOMAIN periods' \ DOMAIN periods :
                     /\ periods'[id].start_date = call[c].arg[1]
                     /\ periods'[id].end_date = call[c].arg[2]]_vars
    /\ [][\A r \in Runs :
            (/\ ~auditUp
             /\ run[r].pc = "calculated"
             /\ run'[r] # run[r]
             /\ run'[r].err # "store_error")
            => /\ run'[r].pc = "employees"
               /\ run[r].calc.payslip \subseteq run'[r].txPayslips]_vars
    /\ [][\A r \in Runs :
            (/\ ~auditUp
             /\ run[r].pc = "employees"
             /\ run[r].todo = {}
             /\ run'[r] # run[r]
             /\ ~periods[run[r].period].is_processed)
            => run'[r].pc = "marked"]_vars
    /\ [][\A r \in Runs :
            (run[r].pc = "marked" /\ run'[r] # run[r])
            => /\ run'[r].pc = "committed"
               /\ run[r].txPayslips \subseteq payslips'
               /\ periods'[run[r].period].is_processed]_vars

\* the sink was down for a whole run and a reimbursement: the run committed
\* its payslips and the reimbursement is stored, with no audit entry for
\* either
C20_Witness ==
    /\ run["r1"].pc = "committed"
    /\ Cardinality(payslips) = 2
    /\ periods[1].is_processed
    /\ \A e \in Employees :
          ~BagIn(AuditEntry("CREATE", "Payslip", <<"r1", e>>), auditLog)
    /\ ~BagIn(AuditEntry("UPDATE", "PayrollPeriod", 1), auditLog)
    /\ \E b \in reimbursements :
          /\ b.id >= 4
          /\ ~BagIn(AuditEntry("CREATE", "Reimbursement", b.id), auditLog)

\* C21: a SubmitAttendance call on a weekday makes one store write and one
\* audit write: when the lookup found a record, that record gets the
\* submitted times, no record is added, and one UPDATE entry is logged whose
\* old snapshot holds the times found and whose new snapshot the submitted
\* times; when it found none, one record is inserted and one CREATE entry is
\* logged; when the store refuses the write, the call returns the error and
\* nothing is logged.
C21_OneWriteOneAudit ==
    /\ [][\A c \in Calls :
            (SubmitAttendanceWrite(c) /\ call[c].existing # {})
            => \E old \in call[c].existing :
                  /\ call'[c] = NoCall
                  /\ Ids(attendances') = Ids(attendances)
                  /\ \A a \in attendances : a.id # old.id => a \in attendances'
                  /\ \E a \in attendances' :
                        /\ a.id = old.id /\ a.user = old.user /\ a.date = old.date
                        /\ a.check_in = call[c].arg[1]
                        /\ a.check_out = call[c].arg[2]
                  /\ auditLog' = auditLog (+) SetToBag(
                        {[action |-> "UPDATE", entity |-> "Attendance",
                          entity_id |-> old.id,
                          old_value |-> <<old.check_in, old.check_out>>,
                          new_value |-> call[c].arg]})]_vars
    /\ [][\A c \in Calls :
            (/\ SubmitAttendanceWrite(c)
             /\ call[c].existing = {}
             /\ call'[c].err = "")
            => /\ \E a \in attendances' \ attendances :
                     /\ attendances' = attendances \cup {a}
                     /\ a.user = call[c].user /\ a.date = call[c].date
                     /\ a.check_in = call[c].arg[1]
                     /\ a.check_out = call[c].arg[2]
                     /\ auditLog' = auditLog (+) SetToBag(
                           {[action |-> "CREATE", entity |-> "Attendance",
                             entity_id |-> a.id]})]_vars
    /\ [][\A c \in Calls :
            (SubmitAttendanceWrite(c) /\ call'[c].err # "")
            => /\ attendances' = attendances
               /\ auditLog' = auditLog]_vars

\* one call updated e1's record of date 1 from 09-17 to 09-14 with the audit
\* snapshots of both, and the insert of another call was refused
C21_Witness ==
    /\ BagIn([action |-> "UPDATE", entity |-> "Attendance", entity_id |-> 1,
              old_value |-> <<9, 17>>, new_value |-> <<9, 14>>], auditLog)
    /\ \E a \in attendances : a.id = 1 /\ a.check_out = 14
    /\ \E c \in Calls : call[c].err = "unique_violation"

C25_NoSubmissionLostToRun ==
    [][\A r \in Runs :
          RunCommit(r)
          => \A a \in attendances :
                \E b \in attendances' :
                   /\ b.id = a.id
                   /\ b.check_in = a.check_in
                   /\ b.check_out = a.check_out]_vars

\* C26: payroll_period_id is write-once: a record tagged with a period keeps
\* that period in every later state.
C26_PeriodTagWriteOnce ==
    /\ [][\A a \in attendances :
            a.period # NULL
            => \E b \in attendances' : b.id = a.id /\ b.period = a.period]_vars
    /\ [][\A o \in overtimes :
            o.period # NULL
            => \E b \in overtimes' : b.id = o.id /\ b.period = o.period]_vars
    /\ [][\A x \in reimbursements :
            x.period # NULL
            => \E b \in reimbursements' : b.id = x.id /\ b.period = x.period]_vars

\* C23: for a period whose inclusive range holds no weekday the payslip has
\* prorated_salary = 0 and overtime_pay = 0 whatever overtime records lie in
\* the range, total_take_home_pay = total_reimbursement, and the run is not
\* failed by the calculation.
C23_NoWeekdayPeriod ==
    /\ [][\A r \in Runs, u \in Employees :
            (/\ RunCalculate(r, u)
             /\ \A d \in periods[run[r].period].start_date
                          ..periods[run[r].period].end_date :
                   Weekday(d) \in {Saturday, Sunday})
            => \E s \in run'[r].calc.payslip :
                  /\ run'[r].calc.payslip = {s}
                  /\ s.user = u
                  /\ s.prorated_salary = 0
                  /\ s.overtime_pay = 0
                  /\ s.total_reimbursement =
                        SetSum({<<b.id, b.amount>> : b \in run'[r].calc.rb})
                  /\ s.total_take_home_pay = s.total_reimbursement]_vars
    /\ [](\A r \in Runs :
            run[r].pc = "failed" => run[r].err \in {"not_found", "store_error"})

\* the run on the Saturday-to-Sunday period [3, 4] committed: e2, with two
\* overtime hours on the Saturday, is paid 0, and e1 is paid the
\* reimbursement of 50 created on the Saturday
C23_Witness ==
    /\ run["r1"].pc = "committed"
    /\ periods[1].start_date = 3 /\ periods[1].end_date = 4
    /\ \E o \in overtimes : o.user = "e2" /\ o.date = 3 /\ o.period = 1
    /\ \E b \in reimbursements : b.created_at = 7 /\ b.period = 1
    /\ \E s \in payslips :
          /\ s.user = "e2" /\ s.overtime_pay = 0 /\ s.total_take_home_pay = 0
    /\ \E s \in payslips :
          /\ s.user = "e1" /\ s.prorated_salary = 0
          /\ s.total_take_home_pay = 50

\* C24: for a processed period GetPayslipSummaryForPeriod returns the payslips
\* stored for that period, one entry each, and a total equal to the sum of
\* their total_take_home_pay (0 with an empty list when there are none); on
\* an error it returns no payslips and total 0.
C24_SummaryEntriesAndTotal ==
    /\ [][\A c \in Calls, id \in PeriodIds :
            GetPayslipSummaryPeriod(c, id)
            => IF id \in DOMAIN periods /\ periods[id].is_processed
               THEN call'[c].op = "summary" /\ call'[c].err = ""
               ELSE /\ call'[c].op = "none"
                    /\ call'[c].err # ""
                    /\ call'[c].existing = {}
                    /\ call'[c].arg = 0]_vars
    /\ [][\A c \in Calls :
            GetPayslipSummaryRead(c)
            => LET ps == {s \in payslips : s.period = call[c].arg}
                   sum[S \in SUBSET ps] ==
                       IF S = {} THEN 0
                       ELSE LET x == CHOOSE x \in S : TRUE
                            IN x.total_take_home_pay + sum[S \ {x}]
               IN /\ call'[c].err = ""
                  /\ call'[c].existing = ps
                  /\ call'[c].arg = <<call[c].arg, sum[ps]>>]_vars

\* a summary of processed period 1 returned the payslips of e1 (1250) and e2
\* (0) with total 1250, and another call got an error with total 0
C24_Witness ==
    \E c1, c2 \in Calls :
        /\ call[c1].err = ""
        /\ Cardinality(call[c1].existing) = 2
        /\ {s.user : s \in call[c1].existing} = {"e1", "e2"}
        /\ call[c1].arg = <<1, 1250>>
        /\ call[c2].err = "not_processed"
        /\ call[c2].arg = 0
        /\ call[c2].existing = {}

\* C27: no record is paid twice: the commit of a run never re-tags an
\* attendance, overtime or reimbursement record that is already tagged with
\* another period, so each record is counted in the payslips of at most one
\* period.
C27_NoRecordPaidTwice ==
    [][\A r \in Runs :
          RunCommit(r)
          => /\ \A x \in run[r].txAtt : \A a \in attendances :
                   a.id = x.id => a.period \in {NULL, run[r].period}
             /\ \A x \in run[r].txOt : \A o \in overtimes :
                   o.id = x.id => o.period \in {NULL, run[r].period}
             /\ \A x \in run[r].txRb : \A b \in reimbursements :
                   b.id = x.id => b.period \in {NULL, run[r].period}]_vars

\* C28: every CREATE audit entry of a Payslip refers to a payslip in the
\* committed store: a RunPayroll that failed and rolled back has left no
\* Payslip entry in the audit log.
C28_PayslipAuditOnlyCommitted ==
    \A r \in Runs, e \in Employees :
        (/\ run[r].pc \in {"failed", "committed"}
         /\ BagIn(AuditEntry("CREATE", "Payslip", <<r, e>>), auditLog))
        => \E s \in payslips : s.id = <<r, e>>

\* C29: attendance uniqueness is scoped per employee: a SubmitAttendance write
\* for an employee and weekday date of which the store holds no record stores
\* that record and succeeds, whether or not another employee has a record of
\* the date, and leaves every other record unchanged.
C29_UniquenessPerEmployee ==
    [][\A c \in Calls :
          (/\ SubmitAttendanceWrite(c)
           /\ \A a \in attendances :
                 ~(a.user = call[c].user /\ a.date = call[c].date))
          => /\ call'[c].err = ""
             /\ attendances \subseteq attendances'
             /\ \E a \in attendances' \ attendances :
                   /\ a.user = call[c].user
                   /\ a.date = call[c].date
                   /\ attendances' = attendances \cup {a}]_vars

\* C30: every payslip committed by RunPayroll has
\* 0 <= prorated_salary <= base_salary.
C30_ProratedWithinBase ==
    \A s \in payslips :
        /\ s.prorated_salary[1] >= 0
        /\ s.prorated_salary[1] <= s.base_salary * s.prorated_salary[2]

====
